---- MODULE Spec2Model ----
(***************************************************************************)
(* FileDeleteService of ifcloud-core (src/services/file/delete.service.ts) *)
(* over the materialized-path store: every file row has a file_path row    *)
(* whose path is the array of the ids of its ancestors, root first.        *)
(* Each await of a handler is one step of the calling process, so that     *)
(* concurrent requests interleave exactly at the awaits.                   *)
(***************************************************************************)
EXTENDS Integers, Sequences, FiniteSets, TLC

\* ---------------------------------------------------------------- bounds
MaxNodes == 5
MaxCalls == 2
MaxUploadCalls == 4

Nodes == 1..MaxNodes
Procs == {1, 2}
Members == {1, 2}
RootIds == {1, 3}
TempIds == {1, 2}
ChunkCounts == {1, 2}
Payloads == {"x", "y"}
UploadNames == {"a.txt", "b.txt"}

\* ----------------------------------------------------------- vocabulary
container == "container"
block == "block"

\* SpecialContainerNameSchema.enum: the well-known names; the schema file
\* is not part of the sources, only its member `trash` is used by name.
SpecialContainerNameSchema == {"root", "home", "trash"}

Idle == [op |-> "none", memberId |-> 0, rootFileId |-> 0, key |-> <<>>,
         trash |-> 0, trashPath |-> <<>>, file |-> 0, filePath |-> <<>>,
         rows |-> {}, ancestors |-> {},
         preFiles |-> {}, prePath |-> <<>>, preCalls |-> <<>>]

VARIABLES
  files,        \* ids of the rows of table file
  file_key,     \* file.file_key   (unique, immutable)
  file_name,    \* file.file_name
  type,         \* file.type
  owner_id,     \* file.owner_id
  path,         \* file_path.path, a function on the ids that have a row
  blobs,        \* keys whose blob is present in the storage service
  deleteCalls,  \* key -> number of storageService.deleteFile(key) calls
  pending,      \* keys of storage deletions started and not yet settled
  pc,           \* per request: the await it is suspended at
  loc,          \* per request: arguments and local constants
  result,       \* per request: returned value or thrown exception
  calls,        \* number of requests started so far
  temp_file,    \* rows of table temp_file (uploads in flight)
  tempSeq,      \* next value of the autoincrement temp_file.id
  scratch,      \* per upload: chunk index -> payload of the stored chunk
  received,     \* per upload: the indices received so far
  mergeCount,   \* per upload: number of merges triggered
  mergedBlob,   \* per upload: the content written by the merge
  created,      \* per upload: number of file rows created for it
  upc,          \* per upload request: the step it is suspended at
  uloc,         \* per upload request: arguments and local constants
  ures,         \* per upload request: returned value or thrown exception
  ucalls        \* number of upload requests started so far

fvars == <<files, file_key, file_name, type, owner_id, path, blobs,
           deleteCalls, pending, pc, loc, result, calls>>

uvars == <<temp_file, tempSeq, scratch, received, mergeCount, mergedBlob,
           created, upc, uloc, ures, ucalls>>

vars == <<fvars, uvars>>

attrs == <<file_key, file_name, type, owner_id>>

\* -------------------------------------------------------------- helpers
Range(s) == {s[i] : i \in 1..Len(s)}

\* Array.prototype.concat with one element / another array
concat(s, x) == Append(s, x)

\* Array.prototype.slice(k), k >= 0
slice(s, k) == SubSeq(s, k + 1, Len(s))

\* Prisma scalar-list filter hasEvery: every given value occurs in the list
hasEvery(p, q) == Range(q) \subseteq Range(p)

\* file.file_key: an opaque unique key, generated per row
KeyOf(n) == <<"key", n>>

Keys == {KeyOf(n) : n \in Nodes}

\* ----------------------------------------------------------------- Init
\* node 1 is a root, node 2 its trash container; node 3 is a second root, a
\* sibling of the trash container or lies in it; a later node lies under
\* the first root or under its predecessor
ParentChoices(n) == IF n = 1 THEN {0} ELSE IF n = 2 THEN {1}
                    ELSE IF n = 3 THEN {0, 1, 2} ELSE {1, n - 1}

Forests == {par \in [Nodes -> 0..MaxNodes] : \A n \in Nodes : par[n] \in ParentChoices(n)}

RECURSIVE PathFrom(_, _)
PathFrom(par, n) == IF par[n] = 0 THEN <<>>
                    ELSE Append(PathFrom(par, par[n]), par[n])

IsLeaf(par, n) == \A m \in Nodes : par[m] # n

NameIn(par, rootName, extraTrash, n) ==
  IF n = 2 \/ n = extraTrash THEN "trash"
  ELSE IF par[n] = 0 THEN rootName
  ELSE IF IsLeaf(par, n) THEN "a.txt"
  ELSE "docs"

RootIn(par, n) == IF par[n] = 0 THEN n ELSE PathFrom(par, n)[1]

UIdle == [op |-> "none", id |-> 0, index |-> 0, payload |-> "", total |-> 0,
          found |-> FALSE, pre |-> {}, preMerges |-> 0]

\* no upload in flight, no upload request running
UploadInit ==
  /\ temp_file = {}
  /\ tempSeq = 1
  /\ scratch = [u \in TempIds |-> <<>>]
  /\ received = [u \in TempIds |-> {}]
  /\ mergeCount = [u \in TempIds |-> 0]
  /\ mergedBlob = [u \in TempIds |-> <<>>]
  /\ created = [u \in TempIds |-> 0]
  /\ upc = [p \in Procs |-> "idle"]
  /\ uloc = [p \in Procs |-> UIdle]
  /\ ures = [p \in Procs |-> "none"]
  /\ ucalls = 0

FileInit(par, rootName, extraTrash) ==
    /\ files = Nodes
    /\ file_key = [n \in Nodes |-> KeyOf(n)]
    /\ file_name = [n \in Nodes |-> NameIn(par, rootName, extraTrash, n)]
    /\ type = [n \in Nodes |-> IF NameIn(par, rootName, extraTrash, n) = "a.txt"
                               THEN block ELSE container]
    /\ owner_id = [n \in Nodes |-> IF RootIn(par, n) = 1 THEN 1 ELSE 2]
    /\ path = [n \in Nodes |-> PathFrom(par, n)]
    /\ blobs = {KeyOf(n) : n \in {m \in Nodes : NameIn(par, rootName, extraTrash, m) = "a.txt"}}
    /\ deleteCalls = [k \in Keys |-> 0]
    /\ pending = {}
    /\ pc = [p \in Procs |-> "idle"]
    /\ loc = [p \in Procs |-> Idle]
    /\ result = [p \in Procs |-> "none"]
    /\ calls = 0

Init ==
  \E par \in Forests, rootName \in {"root", "docs"}, extraTrash \in {0, 3} :
    FileInit(par, rootName, extraTrash) /\ UploadInit

\* ------------------------------------------------------------- requests
Finish(p, r) ==
  /\ pc' = [pc EXCEPT ![p] = "done"]
  /\ result' = [result EXCEPT ![p] = r]

\* findUniqueOrThrow({where: {file_key}}): the ids of the matching rows
findByKey(k) == {f \in files : file_key[f] = k}

\* the special-container check with the depth bound one too small
isSpecialRootOnly(f, p_) == file_name[f] \in SpecialContainerNameSchema /\ Len(p_) < 1
\* lines 48-51 and 167-170: a well-known name at path length 0 or 1
isSpecial(f, p_) == file_name[f] \in SpecialContainerNameSchema /\ Len(p_) <= 1

\* storageService.deleteFile(key) is started for every key of ks, not awaited
startStorageDelete(ks) ==
  /\ deleteCalls' = [k \in DOMAIN deleteCalls |->
                       IF k \in ks THEN deleteCalls[k] + 1 ELSE deleteCalls[k]]
  /\ pending' = pending \cup ks

\* the checks without the one for several trash containers
trashVerdictFirstWins(trash) ==
  IF trash = {} THEN "NotFoundException" ELSE "found"
\* moveToTrash, lines 144-150: the checks on the trash containers found
trashVerdict(trash) ==
  IF trash = {} THEN "NotFoundException"
  ELSE IF Cardinality(trash) > 1 THEN "InternalServerErrorException"
  ELSE "found"

\* moveToTrash, lines 129-143: the trash containers of the member under the root
findTrash(memberId, rootFileId) ==
  {f \in DOMAIN path : /\ owner_id[f] = memberId
                       /\ file_name[f] = "trash"
                       /\ path[f] = <<rootFileId>>}

\* moveToTrash, lines 129-151: resolve the trash container
MT_FindTrash(p, memberId, rootFileId, targetFileKey) ==
  /\ pc[p] = "idle"
  /\ calls < MaxCalls
  /\ calls' = calls + 1
  /\ LET trash == findTrash(memberId, rootFileId)
         start == [Idle EXCEPT !.op = "moveToTrash", !.memberId = memberId,
                               !.rootFileId = rootFileId, !.key = targetFileKey,
                               !.preFiles = files, !.prePath = path,
                               !.preCalls = deleteCalls]
     IN IF trashVerdict(trash) # "found"
        THEN /\ Finish(p, trashVerdict(trash))
             /\ loc' = [loc EXCEPT ![p] = start]
        ELSE LET t == CHOOSE f \in trash : TRUE
             IN /\ loc' = [loc EXCEPT ![p] = [start EXCEPT !.trash = t,
                                 !.trashPath = concat(path[t], t)]]
                /\ pc' = [pc EXCEPT ![p] = "mt_findTarget"]
                /\ UNCHANGED result
  /\ UNCHANGED <<files, attrs, path, blobs, deleteCalls, pending, uvars>>

\* moveToTrash, lines 153-173: load the target and refuse special containers
MT_FindTarget(p) ==
  /\ pc[p] = "mt_findTarget"
  /\ LET found == findByKey(loc[p].key)
     IN IF found = {}
        THEN Finish(p, "NotFoundError") /\ UNCHANGED loc
        ELSE LET target == CHOOSE f \in found : TRUE
             IN IF target \notin DOMAIN path
                THEN Finish(p, "InternalServerErrorException") /\ UNCHANGED loc
                ELSE IF isSpecial(target, path[target])
                THEN Finish(p, "BadRequestException") /\ UNCHANGED loc
                ELSE /\ loc' = [loc EXCEPT ![p].file = target,
                                           ![p].filePath = path[target]]
                     /\ pc' = [pc EXCEPT ![p] = "mt_findAncestors"]
                     /\ UNCHANGED result
  /\ UNCHANGED <<files, attrs, path, blobs, deleteCalls, pending, calls, uvars>>

\* moveToTrash, lines 175-184: the rows whose path holds every id of targetPath
MT_FindAncestors(p) ==
  /\ pc[p] = "mt_findAncestors"
  /\ LET targetPath == concat(loc[p].filePath, loc[p].file)
         targetAncestors == {[file_id |-> f, path |-> path[f]] :
                               f \in {g \in DOMAIN path : hasEvery(path[g], targetPath)}}
     IN loc' = [loc EXCEPT ![p].rows = targetAncestors]
  /\ pc' = [pc EXCEPT ![p] = "mt_tx"]
  /\ UNCHANGED <<files, attrs, path, blobs, deleteCalls, pending, result, calls, uvars>>

\* the new path of a row read by moveToTrash, line 193
movedPath(l, oldPath) ==
  l.trashPath \o slice(oldPath, Len(concat(l.filePath, l.file)) - 1)

\* the batch with an update of the trash container's own row added
txWritesTrashToo(l) ==
  [f \in DOMAIN path |->
     IF f = l.trash THEN l.trashPath
     ELSE IF f = l.file THEN movedPath(l, l.filePath)
     ELSE IF \E r \in l.rows : r.file_id = f
     THEN movedPath(l, (CHOOSE r \in l.rows : r.file_id = f).path)
     ELSE path[f]]
\* the store after all updates of the batch: targetAncestors first, then the
\* target's own row (targets = targetAncestors.concat(target.file_path))
txWrites(l) ==
  [f \in DOMAIN path |->
     IF f = l.file THEN movedPath(l, l.filePath)
     ELSE IF \E r \in l.rows : r.file_id = f
     THEN movedPath(l, (CHOOSE r \in l.rows : r.file_id = f).path)
     ELSE path[f]]

\* a batch cut short after the rows of `done`, without rollback
txPartial(l, done) ==
  [f \in DOMAIN path |-> IF f \in done THEN txWrites(l)[f] ELSE path[f]]

txTargets(l) == {r.file_id : r \in l.rows} \cup {l.file}

\* the store after a rejected batch that kept the updates made before the target's
notRolledBack(l) == txPartial(l, {r.file_id : r \in l.rows} \cap DOMAIN path)
\* the store after a rejected batch: prisma.$transaction rolls everything back
rolledBack(l) == path

\* moveToTrash, lines 186-199: prisma.$transaction([...updates]); an update of
\* a row that no longer exists, or a store failure, rejects the batch
MT_Tx(p) ==
  /\ pc[p] = "mt_tx"
  /\ \E storeOk \in BOOLEAN :
       IF storeOk /\ txTargets(loc[p]) \subseteq DOMAIN path
       THEN /\ path' = txWrites(loc[p])
            /\ Finish(p, "true")
       ELSE /\ path' = rolledBack(loc[p])
            /\ Finish(p, "PrismaError")
  /\ UNCHANGED <<files, attrs, blobs, deleteCalls, pending, loc, calls, uvars>>

\* deleteFile, lines 36-58: load the file, refuse special containers, start
\* the deletion of the blob of a block
DF_FindFile(p, fileKey) ==
  /\ pc[p] = "idle"
  /\ calls < MaxCalls
  /\ calls' = calls + 1
  /\ LET found == findByKey(fileKey)
         start == [Idle EXCEPT !.op = "deleteFile", !.key = fileKey,
                               !.preFiles = files, !.prePath = path,
                               !.preCalls = deleteCalls]
     IN IF found = {}
        THEN /\ Finish(p, "NotFoundError")
             /\ loc' = [loc EXCEPT ![p] = start]
             /\ UNCHANGED <<deleteCalls, pending>>
        ELSE LET file == CHOOSE f \in found : TRUE
             IN IF file \notin DOMAIN path
                THEN /\ Finish(p, "InternalServerErrorException")
                     /\ loc' = [loc EXCEPT ![p] = start]
                     /\ UNCHANGED <<deleteCalls, pending>>
                ELSE IF isSpecial(file, path[file])
                THEN /\ Finish(p, "BadRequestException")
                     /\ loc' = [loc EXCEPT ![p] = start]
                     /\ UNCHANGED <<deleteCalls, pending>>
                ELSE /\ loc' = [loc EXCEPT ![p] = [start EXCEPT !.file = file,
                                                     !.filePath = path[file]]]
                     /\ pc' = [pc EXCEPT ![p] = "df_findMany"]
                     /\ UNCHANGED result
                     /\ IF type[file] = block
                        THEN startStorageDelete({file_key[file]})
                        ELSE UNCHANGED <<deleteCalls, pending>>
  /\ UNCHANGED <<files, attrs, path, blobs, uvars>>

\* the keys of the rows found, whatever their type
anyKeys(rows) == {file_key[g] : g \in rows}
\* deleteFile, lines 71-77: the keys of the rows found whose type is block
blockKeys(rows) == {file_key[g] : g \in {f \in rows : type[f] = block}}

\* deleteFile, lines 60-77: the rows whose path holds every id of the file's
\* path and the file's id; the blobs of the blocks among them are deleted
DF_FindMany(p) ==
  /\ pc[p] = "df_findMany"
  /\ LET ancestors == {f \in DOMAIN path :
                         hasEvery(path[f], concat(loc[p].filePath, loc[p].file))}
     IN /\ loc' = [loc EXCEPT ![p].ancestors = ancestors]
        /\ startStorageDelete(blockKeys(ancestors))
  /\ pc' = [pc EXCEPT ![p] = "df_deleteMany"]
  /\ UNCHANGED <<files, attrs, path, blobs, result, calls, uvars>>

\* onDelete: Cascade from file to file_path
deleteRows(ids) ==
  /\ files' = files \ ids
  /\ path' = [f \in DOMAIN path \ ids |-> path[f]]

\* the keys of the storage deletions that failed: asked for, settled, and
\* the blob is still there
failed == {k \in Keys : deleteCalls[k] > 0 /\ k \notin pending /\ k \in blobs}

\* the keys whose storage deletion request l has started
requestKeys(l) == blockKeys(l.ancestors \cup {l.file})

\* the same with every started deletion awaited
awaitedAll(ks) == ks
\* deleteFile, lines 57 and 71-77: storageService.deleteFile is called without
\* await and Promise.all is dropped: the request waits for none of them
awaited(ks) == {}

\* deleteFile, lines 79-86: prisma.file.deleteMany({id in ancestors})
DF_DeleteMany(p) ==
  /\ pc[p] = "df_deleteMany"
  /\ awaited(requestKeys(loc[p])) \cap pending = {}
  /\ IF awaited(requestKeys(loc[p])) \cap failed # {}
     THEN /\ UNCHANGED <<files, path>>
          /\ Finish(p, "InternalServerErrorException")
     ELSE \E storeOk \in BOOLEAN :
       IF storeOk
       THEN /\ deleteRows(loc[p].ancestors)
            /\ pc' = [pc EXCEPT ![p] = "df_delete"]
            /\ UNCHANGED result
       ELSE /\ UNCHANGED <<files, path>>
            /\ Finish(p, "PrismaError")
  /\ UNCHANGED <<attrs, blobs, deleteCalls, pending, loc, calls, uvars>>

\* deleteFile, lines 88-93: prisma.file.delete({id: file.id}); rejects when
\* the row is gone
DF_Delete(p) ==
  /\ pc[p] = "df_delete"
  /\ \E storeOk \in BOOLEAN :
       IF storeOk /\ loc[p].file \in files
       THEN /\ deleteRows({loc[p].file})
            /\ Finish(p, "file")
       ELSE /\ UNCHANGED <<files, path>>
            /\ Finish(p, "PrismaError")
  /\ UNCHANGED <<attrs, blobs, deleteCalls, pending, loc, calls, uvars>>

\* the storage service settles a deletion it was asked for: the blob is gone
StorageDelete(k) ==
  /\ k \in pending
  /\ pending' = pending \ {k}
  /\ blobs' = blobs \ {k}
  /\ UNCHANGED <<files, attrs, path, deleteCalls, pc, loc, result, calls, uvars>>

\* the storage service fails to delete a blob: the failure is logged and the
\* blob stays; at most one blob is in that state at a time
StorageDeleteFail(k) ==
  /\ k \in pending
  /\ failed = {}
  /\ pending' = pending \ {k}
  /\ UNCHANGED <<files, attrs, path, blobs, deleteCalls, pc, loc, result, calls, uvars>>

\* the request has been answered; the worker takes the next one
Return(p) ==
  /\ pc[p] = "done"
  /\ calls < MaxCalls
  /\ pc' = [pc EXCEPT ![p] = "idle"]
  /\ loc' = [loc EXCEPT ![p] = Idle]
  /\ result' = [result EXCEPT ![p] = "none"]
  /\ UNCHANGED <<files, attrs, path, blobs, deleteCalls, pending, calls, uvars>>

Step(p) ==
  \/ \E m \in Members, r \in RootIds, k \in Keys : MT_FindTrash(p, m, r, k)
  \/ MT_FindTarget(p)
  \/ MT_FindAncestors(p)
  \/ MT_Tx(p)
  \/ \E k \in Keys : DF_FindFile(p, k)
  \/ DF_FindMany(p)
  \/ DF_DeleteMany(p)
  \/ DF_Delete(p)
  \/ Return(p)

Storage == \E k \in Keys : StorageDelete(k) \/ StorageDeleteFail(k)

\* concurrent requests
Next == (\E p \in Procs : Step(p)) \/ Storage

Spec == Init /\ [][Next]_vars

\* one request at a time
SeqNext == Step(1) \/ Storage

SeqSpec == Init /\ [][SeqNext]_vars

\* -------------------------------------------------------------- uploads
\* temp_file.file_key: the key the finished file will carry
UploadKey(u) == <<"tmp", u>>

\* the row of upload u, as a set of at most one row
rowOf(u) == {r \in temp_file : r.id = u}

\* the chunk indices of an upload declared with k chunks
Indices(k) == 0..(k - 1)

\* every chunk index a request may carry
ChunkIndices == UNION {Indices(k) : k \in ChunkCounts}

UFinish(p, r) ==
  /\ upc' = [upc EXCEPT ![p] = "done"]
  /\ ures' = [ures EXCEPT ![p] = r]

UStart(p) ==
  /\ upc[p] = "idle"
  /\ ucalls < MaxUploadCalls
  /\ ucalls' = ucalls + 1

\* model temp_file: id is the primary key and file_key is unique; no other
\* column or group of columns is: the rows an insert of r collides with
conflicts(r) == {t \in temp_file : t.id = r.id \/ t.file_key = r.file_key}

\* initiate(owner, parent, name, totalChunks): prisma.temp_file.create; a
\* unique-constraint violation (P2002) is answered with ConflictException
Initiate(p, owner, parent, name, total) ==
  /\ UStart(p)
  /\ tempSeq \in TempIds
  /\ LET r == [id |-> tempSeq, file_key |-> UploadKey(tempSeq), owner_id |-> owner,
               parent_id |-> parent, file_name |-> name, total |-> total]
     IN  IF conflicts(r) # {}
         THEN /\ UNCHANGED <<temp_file, tempSeq>>
              /\ UFinish(p, "ConflictException")
         ELSE /\ temp_file' = temp_file \cup {r}
              /\ tempSeq' = tempSeq + 1
              /\ UFinish(p, "temp_file")
  /\ uloc' = [uloc EXCEPT ![p] = [UIdle EXCEPT !.op = "initiate", !.id = tempSeq,
                                               !.total = total]]
  /\ UNCHANGED <<scratch, received, mergeCount, mergedBlob, created, fvars>>

\* receiveChunk(uploadKey, index, payload): the upload is looked up first;
\* no row: NotFoundException
RC_Find(p, u, index, payload) ==
  /\ UStart(p)
  /\ IF rowOf(u) = {}
     THEN /\ index = 0 /\ payload = "x"
          /\ uloc' = [uloc EXCEPT ![p] = [UIdle EXCEPT !.op = "receiveChunk", !.id = u,
                                                       !.payload = payload]]
          /\ UFinish(p, "NotFoundException")
     ELSE \E r \in rowOf(u) :
            /\ index \in Indices(r.total)
            /\ uloc' = [uloc EXCEPT ![p] =
                          [op |-> "receiveChunk", id |-> u, index |-> index,
                           payload |-> payload, total |-> r.total, found |-> TRUE,
                           pre |-> received[u], preMerges |-> mergeCount[u]]]
            /\ upc' = [upc EXCEPT ![p] = "rc_write"]
            /\ UNCHANGED ures
  /\ UNCHANGED <<temp_file, tempSeq, scratch, received, mergeCount, mergedBlob,
                 created, fvars>>

\* the chunk store after a write: the chunk of that index is replaced
written(ch, index, payload) ==
  [i \in DOMAIN ch \cup {index} |-> IF i = index THEN payload ELSE ch[i]]

\* receiveChunk: the payload is written to the scratch location keyed by
\* (uploadKey, index) and the index joins the received set; writes of
\* different requests do not exclude one another
RC_Write(p) ==
  /\ upc[p] = "rc_write"
  /\ LET l == uloc[p] IN
       /\ scratch' = [scratch EXCEPT ![l.id] = written(@, l.index, l.payload)]
       /\ received' = [received EXCEPT ![l.id] = @ \cup {l.index}]
  /\ upc' = [upc EXCEPT ![p] = "rc_check"]
  /\ UNCHANGED <<temp_file, tempSeq, mergeCount, mergedBlob, created, uloc, ures,
                 ucalls, fvars>>

\* the completion check without the per-upload synchronization
claimsMergeUnsynchronized(u, k) == received[u] = Indices(k)
\* the completion check, synchronized per uploadKey: the request whose chunk
\* completes the set, and no later one, triggers the merge
claimsMerge(u, k) == received[u] = Indices(k) /\ mergeCount[u] = 0

RC_Check(p) ==
  /\ upc[p] = "rc_check"
  /\ IF claimsMerge(uloc[p].id, uloc[p].total)
     THEN /\ mergeCount' = [mergeCount EXCEPT ![uloc[p].id] = @ + 1]
          /\ upc' = [upc EXCEPT ![p] = "rc_merge"]
          /\ UNCHANGED ures
     ELSE /\ UNCHANGED mergeCount
          /\ UFinish(p, "done=false")
  /\ UNCHANGED <<temp_file, tempSeq, scratch, received, mergedBlob, created, uloc, ucalls, fvars>>

\* the chunks concatenated from the last index down to the first
RECURSIVE mergeChunksDescending(_, _)
mergeChunksDescending(ch, k) ==
  IF k = 0 THEN <<>> ELSE <<ch[k - 1]>> \o mergeChunksDescending(ch, k - 1)
\* mergeChunks: the chunks 0..k-1 concatenated in index order
RECURSIVE mergeChunks(_, _)
mergeChunks(ch, k) == IF k = 0 THEN <<>> ELSE Append(mergeChunks(ch, k - 1), ch[k - 1])

\* the merge: one blob out of the chunks, then the scratch chunks are
\* deleted; a missing chunk is an I/O error
RC_Merge(p) ==
  /\ upc[p] = "rc_merge"
  /\ LET l == uloc[p] IN
       IF DOMAIN scratch[l.id] = Indices(l.total)
       THEN /\ mergedBlob' = [mergedBlob EXCEPT ![l.id] = mergeChunks(scratch[l.id], l.total)]
            /\ scratch' = [scratch EXCEPT ![l.id] = <<>>]
            /\ upc' = [upc EXCEPT ![p] = "rc_promote"]
            /\ UNCHANGED ures
       ELSE /\ UNCHANGED <<mergedBlob, scratch>>
            /\ UFinish(p, "InternalServerErrorException")
  /\ UNCHANGED <<temp_file, tempSeq, received, mergeCount, created, uloc,
                 ucalls, fvars>>

\* the promotion keeping the temp_file row
promotedKeepingRow(u) == temp_file
\* the temp_file rows after the promotion of upload u
promoted(u) == temp_file \ rowOf(u)

\* the promotion, one transaction: the temp_file row is deleted and the file
\* row is created, or neither
RC_Promote(p) ==
  /\ upc[p] = "rc_promote"
  /\ \E storeOk \in BOOLEAN :
       IF storeOk /\ rowOf(uloc[p].id) # {}
       THEN /\ temp_file' = promoted(uloc[p].id)
            /\ created' = [created EXCEPT ![uloc[p].id] = @ + 1]
            /\ UFinish(p, "done=true")
       ELSE /\ UNCHANGED <<temp_file, created>>
            /\ UFinish(p, "PrismaError")
  /\ UNCHANGED <<tempSeq, scratch, received, mergeCount, mergedBlob, uloc,
                 ucalls, fvars>>

\* deleteTemporaryFile, lines 104-110: prisma.temp_file.delete({id}); rejects
\* when there is no such row; nothing else is touched
DeleteTemporaryFile(p, fileId) ==
  /\ UStart(p)
  /\ uloc' = [uloc EXCEPT ![p] = [UIdle EXCEPT !.op = "deleteTemporaryFile", !.id = fileId,
                                               !.found = rowOf(fileId) # {}]]
  /\ IF rowOf(fileId) # {}
     THEN /\ temp_file' = temp_file \ rowOf(fileId)
          /\ UFinish(p, "temp_file")
     ELSE /\ UNCHANGED temp_file
          /\ UFinish(p, "PrismaError")
  /\ UNCHANGED <<tempSeq, scratch, received, mergeCount, mergedBlob, created, fvars>>

UReturn(p) ==
  /\ upc[p] = "done"
  /\ upc' = [upc EXCEPT ![p] = "idle"]
  /\ uloc' = [uloc EXCEPT ![p] = UIdle]
  /\ ures' = [ures EXCEPT ![p] = "none"]
  /\ UNCHANGED <<temp_file, tempSeq, scratch, received, mergeCount, mergedBlob,
                 created, ucalls, fvars>>

UStep(p) ==
  \/ \E name \in UploadNames, total \in ChunkCounts : Initiate(p, 1, 1, name, total)
  \/ \E u \in TempIds, index \in ChunkIndices, payload \in Payloads :
       RC_Find(p, u, index, payload)
  \/ RC_Write(p)
  \/ RC_Check(p)
  \/ RC_Merge(p)
  \/ RC_Promote(p)
  \/ \E u \in TempIds : DeleteTemporaryFile(p, u)
  \/ UReturn(p)

UploadNext == \E p \in Procs : UStep(p)

\* uploads into the first root of the forest of one tree
UploadSpecInit ==
  /\ FileInit([n \in Nodes |-> IF n = 1 THEN 0 ELSE 1], "root", 0)
  /\ UploadInit

UploadSpec == UploadSpecInit /\ [][UploadNext]_vars

\* ------------------------------------------------------- tree vocabulary
\* the parent recorded by a stored path: its last id (0 for a root)
ParentOf(pth, n) == IF Len(pth[n]) = 0 THEN 0 ELSE pth[n][Len(pth[n])]

\* every stored path is the parent's stored path followed by the parent's id
Consistent(fs, pth) ==
  /\ DOMAIN pth = fs
  /\ \A n \in fs : \/ pth[n] = <<>>
                   \/ /\ ParentOf(pth, n) \in fs
                      /\ pth[n] = Append(pth[ParentOf(pth, n)], ParentOf(pth, n))

RECURSIVE Reach(_, _, _)
Reach(fs, pth, S) ==
  LET T == S \cup {m \in fs : ParentOf(pth, m) \in S}
  IN IF T = S THEN S ELSE Reach(fs, pth, T)

\* descendantsOf: the nodes reached by following child edges from n
DescendantsOf(fs, pth, n) == Reach(fs, pth, {n}) \ {n}

RootOf(pth, n) == IF Len(pth[n]) = 0 THEN n ELSE pth[n][1]

Blocks(S) == {f \in S : type[f] = block}

DeleteDone(p) == pc[p] = "done" /\ loc[p].op = "deleteFile" /\ result[p] = "file"
MoveDone(p) == pc[p] = "done" /\ loc[p].op = "moveToTrash" /\ result[p] = "true"
PreConsistent(p) == Consistent(loc[p].preFiles, loc[p].prePath)

\* ------------------------------------------------------------------ C1
\* C1: a successful deleteFile(N) on a consistent tree removes exactly N and
\* the descendants of N (|descendantsOf(N)| + 1 rows, no other row) and
\* calls the storage deletion exactly once for every block of that set and
\* never for another key.
C1_DeleteSubtreeExact ==
  \A p \in Procs :
    (DeleteDone(p) /\ PreConsistent(p)) =>
      LET N == loc[p].file
          D == DescendantsOf(loc[p].preFiles, loc[p].prePath, N)
          S == D \cup {N}
      IN /\ files \subseteq loc[p].preFiles
         /\ loc[p].preFiles \ files = S
         /\ Cardinality(loc[p].preFiles) - Cardinality(files) = Cardinality(D) + 1
         /\ \A f \in Nodes :
              deleteCalls[file_key[f]] - loc[p].preCalls[file_key[f]]
                = IF f \in Blocks(S) THEN 1 ELSE 0

C1_Witness ==
  \E p \in Procs :
    /\ DeleteDone(p) /\ PreConsistent(p)
    /\ LET D == DescendantsOf(loc[p].preFiles, loc[p].prePath, loc[p].file)
       IN /\ Cardinality(D) >= 2
          /\ Blocks(D) # {}
          /\ D \ Blocks(D) # {}
          /\ files # {}

\* ------------------------------------------------------------------ C2
\* C2: the rows of N and of its descendants are deleted in one transaction:
\* in no state are the descendants of N gone while N still exists (or the
\* reverse); the set is removed as a whole or not at all.
C2_DeleteAllOrNothing ==
  \A p \in Procs :
    (loc[p].op = "deleteFile" /\ loc[p].file # 0 /\ PreConsistent(p)) =>
      LET S == DescendantsOf(loc[p].preFiles, loc[p].prePath, loc[p].file)
                 \cup {loc[p].file}
      IN S \subseteq files \/ S \cap files = {}

\* ------------------------------------------------------------------ C3
\* C3: no stored path ever contains the id of its own node (no cycles),
\* whatever target moveToTrash is given.
C3_Acyclic == \A n \in DOMAIN path : n \notin Range(path[n])

\* ------------------------------------------------------------------ C4
KeyNode(k) == CHOOSE n \in Nodes : file_key[n] = k

\* the trash containers a moveToTrash request had to resolve when it started
PreTrash(p) ==
  {f \in loc[p].preFiles : /\ owner_id[f] = loc[p].memberId
                           /\ file_name[f] = "trash"
                           /\ loc[p].prePath[f] = <<loc[p].rootFileId>>}

MoveEnded(p) == pc[p] = "done" /\ loc[p].op = "moveToTrash"

\* the resolved trash container is the target or lies in the target's subtree
TrashInsideTarget(p) ==
  /\ KeyNode(loc[p].key) \in loc[p].preFiles
  /\ \E t \in PreTrash(p) :
       /\ PreTrash(p) = {t}
       /\ \/ t = KeyNode(loc[p].key)
          \/ t \in DescendantsOf(loc[p].preFiles, loc[p].prePath, KeyNode(loc[p].key))

\* C4: a moveToTrash whose trash container is the target itself or lies in
\* the target's subtree fails with BadRequestException and changes no path.
C4_MoveIntoOwnSubtreeFails ==
  \A p \in Procs :
    (MoveEnded(p) /\ PreConsistent(p) /\ TrashInsideTarget(p)) =>
      (result[p] = "BadRequestException" /\ path = loc[p].prePath)

\* ------------------------------------------------------------------ C5
RECURSIVE After(_, _)
\* the part of the sequence s that follows the first occurrence of x
After(s, x) == IF s = <<>> THEN <<>>
               ELSE IF Head(s) = x THEN Tail(s) ELSE After(Tail(s), x)

\* C5: after a successful moveToTrash(target) on a consistent tree the
\* target's chain is the trash container's chain followed by the trash
\* container, and every descendant's chain is the target's chain, the
\* target, then the unchanged part that followed the target before.
C5_MoveEquivalent ==
  \A p \in Procs :
    (MoveDone(p) /\ PreConsistent(p)) =>
      LET t == loc[p].trash
          x == loc[p].file
      IN /\ path[x] = Append(path[t], t)
         /\ \A d \in DescendantsOf(loc[p].preFiles, loc[p].prePath, x) :
              path[d] = Append(path[x], x) \o After(loc[p].prePath[d], x)

\* ------------------------------------------------------------------ C6
\* C6: every existing block row has its blob in the storage service, at
\* every point of every deleteFile.
C6_NoMissingBlob == \A f \in files : type[f] = block => file_key[f] \in blobs

\* ------------------------------------------------------------------ C7
\* moveToTrash(m, r, k) run alone, start to end, on the store pth
moveAlone(pth, m, r, k) ==
  LET trash == {f \in DOMAIN pth : owner_id[f] = m /\ file_name[f] = "trash"
                                   /\ pth[f] = <<r>>}
      found == {f \in DOMAIN pth : file_key[f] = k}
  IN IF trash = {} THEN [path |-> pth, result |-> "NotFoundException"]
     ELSE IF Cardinality(trash) > 1
     THEN [path |-> pth, result |-> "InternalServerErrorException"]
     ELSE IF found = {} THEN [path |-> pth, result |-> "NotFoundError"]
     ELSE LET t == CHOOSE f \in trash : TRUE
              x == CHOOSE f \in found : TRUE
              targetPath == Append(pth[x], x)
          IN IF file_name[x] \in SpecialContainerNameSchema /\ Len(pth[x]) <= 1
             THEN [path |-> pth, result |-> "BadRequestException"]
             ELSE [path |-> [f \in DOMAIN pth |->
                               IF f = x \/ Range(targetPath) \subseteq Range(pth[f])
                               THEN Append(pth[t], t) \o slice(pth[f], Len(pth[x]))
                               ELSE pth[f]],
                   result |-> "true"]

\* the outcome of request a followed by request b, both run alone
Serial(pth, a, b) ==
  LET first == moveAlone(pth, a.memberId, a.rootFileId, a.key)
      second == moveAlone(first.path, b.memberId, b.rootFileId, b.key)
  IN [path |-> second.path, ra |-> first.result, rb |-> second.result]

\* two moveToTrash requests started on the same consistent tree, on the same
\* target or on nested targets, neither target an ancestor of the trash
ConflictingMoves ==
  /\ MoveEnded(1) /\ MoveEnded(2)
  /\ loc[1].prePath = loc[2].prePath
  /\ PreConsistent(1)
  /\ ~TrashInsideTarget(1) /\ ~TrashInsideTarget(2)
  /\ LET x == KeyNode(loc[1].key)
         y == KeyNode(loc[2].key)
     IN /\ x \in loc[1].preFiles /\ y \in loc[1].preFiles
        /\ \/ x = y
           \/ x \in Range(loc[1].prePath[y])
           \/ y \in Range(loc[1].prePath[x])

\* C7: two concurrent moveToTrash requests on the same node or on nested
\* targets are serialized: one of them fails, or the final paths and the
\* results are those of running the two one after the other in some order.
C7_Serializable ==
  ConflictingMoves =>
    \/ result[1] # "true"
    \/ result[2] # "true"
    \/ \E o \in {<<1, 2>>, <<2, 1>>} :
         LET s == Serial(loc[1].prePath, loc[o[1]], loc[o[2]])
         IN s.ra = "true" /\ s.rb = "true" /\ s.path = path

\* ------------------------------------------------------------------ C8
\* the rows a committed batch of request p has to change
MustChange(p) == {f \in txTargets(loc[p]) \cap DOMAIN path :
                    path[f] # movedPath(loc[p], IF f = loc[p].file THEN loc[p].filePath
                                ELSE (CHOOSE r \in loc[p].rows : r.file_id = f).path)}

\* C8: the path updates of moveToTrash are applied all or nothing: the step
\* that ends the batch either changes the path of the target and of every
\* row read with it, and the request returns true, or it changes no path at
\* all and the request fails; no state lies in between.
C8_MoveAllOrNothing ==
  [][\A p \in Procs :
       (pc[p] = "mt_tx" /\ pc'[p] # "mt_tx") =>
         LET changed == {f \in DOMAIN path : path'[f] # path[f]}
         IN /\ DOMAIN path' = DOMAIN path
            /\ pc'[p] = "done"
            /\ \/ result'[p] = "true" /\ changed = MustChange(p)
               \/ result'[p] # "true" /\ changed = {}]_vars

\* a rejected batch over a target with descendants that left every path as it was
C8_Witness ==
  \E p \in Procs :
    /\ MoveEnded(p) /\ result[p] = "PrismaError"
    /\ loc[p].rows # {}
    /\ loc[p].filePath # loc[p].trashPath
    /\ path = loc[p].prePath

\* ------------------------------------------------------------------ C9
\* C9 as stated: moveToTrash fails with InternalServerErrorException whenever
\* the trash containers found are not exactly one, and changes no path.
C9_FatalUnlessOneTrash ==
  \A p \in Procs :
    (MoveEnded(p) /\ Cardinality(PreTrash(p)) # 1) =>
      (result[p] = "InternalServerErrorException" /\ path = loc[p].prePath)

\* C9 amended: with no trash container moveToTrash fails with
\* NotFoundException, with more than one it fails with
\* InternalServerErrorException; in both cases no path is changed.
C9_TrashCount ==
  \A p \in Procs :
    MoveEnded(p) =>
      /\ PreTrash(p) = {} =>
           (result[p] = "NotFoundException" /\ path = loc[p].prePath)
      /\ Cardinality(PreTrash(p)) > 1 =>
           (result[p] = "InternalServerErrorException" /\ path = loc[p].prePath)

C9_Witness ==
  \E p \in Procs :
    /\ MoveEnded(p) /\ Cardinality(PreTrash(p)) = 2
    /\ result[p] = "InternalServerErrorException"
    /\ KeyNode(loc[p].key) \in files
    /\ ~isSpecial(KeyNode(loc[p].key), path[KeyNode(loc[p].key)])

\* ----------------------------------------------------------------- C10
\* C10: after a successful moveToTrash the trash container that became the
\* target's parent has the owner of the target and lay in the tree (under
\* the root) the target was in.
C10_OwnTrash ==
  \A p \in Procs :
    (MoveDone(p) /\ PreConsistent(p)) =>
      /\ owner_id[loc[p].trash] = owner_id[loc[p].file]
      /\ RootOf(loc[p].prePath, loc[p].trash) = RootOf(loc[p].prePath, loc[p].file)

\* ----------------------------------------------------------------- C11
\* the target of request p carried a well-known name when the request started
NamedSpecial(p) ==
  /\ KeyNode(loc[p].key) \in loc[p].preFiles
  /\ file_name[KeyNode(loc[p].key)] \in SpecialContainerNameSchema

TargetDepth(p) == Len(loc[p].prePath[KeyNode(loc[p].key)])

\* C11 as stated: moveToTrash on a container with a well-known name at root
\* level fails with BadRequestException and changes no path; a node with a
\* well-known name below root level is not refused for its name.
C11_SpecialNotMovable ==
  \A p \in Procs :
    (MoveEnded(p) /\ NamedSpecial(p)) =>
      /\ TargetDepth(p) <= 1 =>
           (result[p] = "BadRequestException" /\ path = loc[p].prePath)
      /\ TargetDepth(p) > 1 => result[p] # "BadRequestException"

\* C11 amended: moveToTrash on a container with a well-known name at root
\* level always fails and changes no path; it fails with
\* BadRequestException when exactly one trash container was found, and with
\* the error of the trash lookup otherwise; a node with a well-known name
\* below root level is not refused for its name.
C11_SpecialRefused ==
  \A p \in Procs :
    (MoveEnded(p) /\ NamedSpecial(p)) =>
      /\ TargetDepth(p) <= 1 =>
           /\ path = loc[p].prePath
           /\ result[p] = IF PreTrash(p) = {} THEN "NotFoundException"
                          ELSE IF Cardinality(PreTrash(p)) > 1
                          THEN "InternalServerErrorException"
                          ELSE "BadRequestException"
      /\ TargetDepth(p) > 1 => result[p] # "BadRequestException"

\* the trash container itself, refused although its trash lookup succeeded
C11_Witness ==
  \E p \in Procs :
    /\ MoveEnded(p) /\ NamedSpecial(p)
    /\ TargetDepth(p) = 1
    /\ Cardinality(PreTrash(p)) = 1
    /\ result[p] = "BadRequestException"
    /\ path = loc[p].prePath

\* ----------------------------------------------------------------- C12
DeleteEnded(p) == pc[p] = "done" /\ loc[p].op = "deleteFile"

\* C12: deleteFile on a container with a well-known name at root level fails
\* with BadRequestException, deletes no row and asks for no blob deletion.
\* (deleteFile takes the key only: no request can force the deletion.)
C12_SpecialNotDeletable ==
  \A p \in Procs :
    (DeleteEnded(p) /\ NamedSpecial(p) /\ TargetDepth(p) <= 1) =>
      /\ result[p] = "BadRequestException"
      /\ files = loc[p].preFiles
      /\ path = loc[p].prePath
      /\ deleteCalls = loc[p].preCalls

\* a refused deletion of a special container that holds a block
C12_Witness ==
  \E p \in Procs :
    /\ DeleteEnded(p) /\ NamedSpecial(p) /\ TargetDepth(p) <= 1
    /\ result[p] = "BadRequestException"
    /\ Blocks(DescendantsOf(files, path, KeyNode(loc[p].key))) # {}

\* ----------------------------------------------------------------- C13
\* the rows deleteFile request p has to delete
DeleteSet(p) ==
  DescendantsOf(loc[p].preFiles, loc[p].prePath, loc[p].file) \cup {loc[p].file}

BlobFailed(p) == failed \cap blockKeys(DeleteSet(p)) # {}

MergeTriggered(u) == mergeCount'[u] # mergeCount[u]

\* a blob of upload u is written by this step
BlobWritten(u) == mergedBlob'[u] # mergedBlob[u]

\* every index of the upload of row r has been received and no request is
\* still between its write and its completion check
Complete(r) ==
  /\ received[r.id] = Indices(r.total)
  /\ \A p \in Procs : uloc[p].id = r.id => upc[p] \notin {"rc_write", "rc_check"}

MergeStep ==
  \A u \in TempIds :
    /\ MergeTriggered(u) =>
         /\ mergeCount[u] = 0 /\ mergeCount'[u] = 1
         /\ \E p \in Procs : /\ uloc[p].id = u /\ upc[p] = "rc_check"
                             /\ received[u] = Indices(uloc[p].total)
    /\ BlobWritten(u) =>
         \E p \in Procs : /\ uloc[p].id = u /\ upc[p] = "rc_merge"
                          /\ Len(mergedBlob'[u]) = uloc[p].total
                          /\ \A i \in Indices(uloc[p].total) :
                               mergedBlob'[u][i + 1] = scratch[u][i]

FinalTwo ==
  /\ \A p \in Procs : /\ upc[p] = "done" /\ uloc[p].op = "receiveChunk"
                      /\ uloc[p].found /\ uloc[p].preMerges = 0
  /\ uloc[1].id = uloc[2].id
  /\ uloc[1].index # uloc[2].index
  /\ LET before == uloc[1].pre \cap uloc[2].pre
         last == {uloc[1].index, uloc[2].index}
     IN  before \cap last = {} /\ before \cup last = Indices(uloc[1].total)

\* C15: two receiveChunk calls that deliver the last two indices of an
\* upload trigger one merge and create at most one file row, in every
\* interleaving; unless the store failed the promotion, exactly one of them
\* answers done=true and exactly one file row exists
C15_OneMergeOneNode ==
  FinalTwo =>
    /\ mergeCount[uloc[1].id] = 1
    /\ created[uloc[1].id] <= 1
    /\ (\A p \in Procs : ures[p] \in {"done=true", "done=false"}) =>
         /\ created[uloc[1].id] = 1
         /\ Cardinality({p \in Procs : ures[p] = "done=true"}) = 1

\* both calls were running before either had written its chunk
C15_Witness ==
  /\ FinalTwo
  /\ uloc[1].pre = {} /\ uloc[2].pre = {}
  /\ mergeCount[uloc[1].id] = 1
  /\ created[uloc[1].id] = 1

\* ------------------------------------------------------------------ C16
\* request p starts a receiveChunk for upload u in this step
StartsReceive(p, u) ==
  upc[p] = "idle" /\ upc'[p] # "idle" /\ uloc'[p].op = "receiveChunk" /\ uloc'[p].id = u

\* request p calls deleteTemporaryFile for upload u in this step
StartsDelete(p, u) ==
  upc[p] = "idle" /\ upc'[p] # "idle" /\ uloc'[p].op = "deleteTemporaryFile" /\ uloc'[p].id = u

RowGone(u) == rowOf(u) # {} /\ \A r \in temp_file' : r.id # u

PromotionStep ==
  \A u \in TempIds :
    /\ created'[u] # created[u] => created'[u] = 1 /\ RowGone(u)
    /\ RowGone(u) => \/ created'[u] = created[u] + 1
                     \/ \E p \in Procs : StartsDelete(p, u)
    /\ \A p \in Procs : (StartsReceive(p, u) /\ rowOf(u) = {}) =>
                          /\ ures'[p] = "NotFoundException"
                          /\ upc'[p] = "done"
                          /\ created' = created /\ scratch' = scratch

\* C16: a file row is created for an upload at most once and in the very
\* step that deletes its temp_file row; a receiveChunk for an upload that
\* has no temp_file row (never initiated, promoted, or abandoned) fails with
\* NotFoundException and creates nothing
C16_PromotionExactlyOnce == [][PromotionStep]_vars

\* a chunk for an upload that was promoted has been refused
C16_Witness ==
  \E p \in Procs :
    /\ uloc[p].op = "receiveChunk" /\ ures[p] = "NotFoundException"
    /\ created[uloc[p].id] = 1 /\ rowOf(uloc[p].id) = {}

\* ------------------------------------------------------------------ C17
\* C17: no two rows of temp_file have the same parent and the same name
C17_OneUploadPerDestination ==
  \A r, t \in temp_file :
    (r.parent_id = t.parent_id /\ r.file_name = t.file_name) => r = t

\* ------------------------------------------------------------------ C18
\* no receiveChunk request for upload u is under way
NoChunkInFlight(u) ==
  \A q \in Procs : uloc[q].id = u => upc[q] \notin {"rc_write", "rc_check", "rc_merge"}

\* C18: deleteTemporaryFile on an upload that was initiated succeeds, also
\* when the upload has been abandoned before, and leaves no scratch chunk
\* of it
C18_AbandonIdempotentComplete ==
  \A p \in Procs :
    (upc[p] = "done" /\ uloc[p].op = "deleteTemporaryFile" /\ uloc[p].id < tempSeq
       /\ created[uloc[p].id] = 0) =>
      /\ ures[p] = "temp_file"
      /\ NoChunkInFlight(uloc[p].id) => scratch[uloc[p].id] = <<>>

\* ------------------------------------------------------------------ C19
\* C19: in every state reached by moveToTrash and deleteFile calls, failed
\* or not, every stored path is the parent's stored path followed by the
\* parent's id, and a root's path is empty
C19_PathConsistent == Consistent(files, path)

\* ------------------------------------------------------------------ C20
\* row n is the file of the deleteFile request p or lies in its subtree
InSubtreeNow(p, n) == n = loc[p].file \/ loc[p].file \in Range(path[n])

DeletesOwnSubtree ==
  \A n \in files \ files' :
    \E p \in Procs : /\ pc[p] \in {"df_deleteMany", "df_delete"}
                     /\ pc'[p] # pc[p]
                     /\ InSubtreeNow(p, n)

\* C20: a row that deleteFile(N) deletes is, in the step that deletes it, N
\* or a row of N's subtree, also when a moveToTrash has meanwhile committed
\* on a descendant of N: what was moved to the trash survives
C20_DeleteOnlyCurrentSubtree == [][DeletesOwnSubtree]_vars

\* ------------------------------------------------------------------ C21
\* the remaining rows whose stored path names the file of deleteFile
\* request p or another row that has been deleted
Dangling(p) ==
  {n \in files : Range(path[n]) \cap ({loc[p].file} \cup (Nodes \ files)) # {}}

\* C21: once deleteFile(N) has returned the deleted file, no remaining row
\* has the id of N or of another deleted row in its stored path, whatever
\* other deleteFile and moveToTrash requests ran beside it
C21_NoDanglingAncestry == \A p \in Procs : DeleteDone(p) => Dangling(p) = {}

\* ------------------------------------------------------------------ C22
\* request p is a moveToTrash that takes a step
MoveStep(p) == loc'[p].op = "moveToTrash" /\ pc'[p] # pc[p]

\* the rows whose stored path this step changes
PathChanged == {n \in DOMAIN path : path'[n] # path[n]}

MoveFrame(p) ==
  /\ files' = files /\ DOMAIN path' = DOMAIN path
  /\ attrs' = attrs
  /\ blobs' = blobs /\ deleteCalls' = deleteCalls /\ pending' = pending
  /\ PathChanged # {} =>
       /\ result'[p] = "true"
       /\ PathChanged \subseteq DescendantsOf(files, path, loc[p].file) \cup {loc[p].file}
  /\ (pc'[p] = "done" /\ result'[p] # "true") => path' = path

====
